---- MODULE Spec2Model ----
(***************************************************************************)
(* A model of the GitHub-Action dependency scanner of src/src/main.rs:     *)
(* the reference parser (ActionRef::from_action_string), the pinning and   *)
(* trust rules (check_dependency_pinning, is_trusted_owner), the advisory  *)
(* lookup with its rate-limit retry (get_github_advisories) and the scan   *)
(* loop of main with its final report.                                     *)
(*                                                                         *)
(* Strings are sequences of one-character strings, so that starts_with,    *)
(* contains, split and the commit-SHA regular expression are computed the  *)
(* way the code computes them.  Option values are sequences of length 0    *)
(* (None) or 1 (Some).                                                     *)
(***************************************************************************)
EXTENDS Integers, Sequences, FiniteSets, TLC

\* ------------------------------------------------------------------ bounds

\* The longest owner/repo part of a raw reference (characters "a" and "/").
MaxNameLen == 3
\* The most "@version" parts a raw reference carries.
MaxAts == 2
\* The most uses: entries of a workflow document.
MaxSteps == 2
\* The most consecutive rate-limit responses a well-behaved endpoint gives
\* to one lookup.
MaxRateLimits == 1

\* ------------------------------------------------------- program constants

\* The length of a commit SHA, regex ^[0-9a-f]{40}$.
ShaLen == 40
\* unwrap_or(60): the wait, in seconds, when Retry-After is absent or
\* unparsable.
DefaultRetryAfter == 60
\* u64 holds at most 20 decimal digits.
U64Digits == 20

\* ----------------------------------------------------------------- strings

None == << >>

Some(x) == << x >>

IsSome(o) == Len(o) = 1

Unwrap(o) == o[1]

\* str::starts_with
starts_with(s, p) ==
    /\ Len(s) >= Len(p)
    /\ SubSeq(s, 1, Len(p)) = p

\* str::contains with a string pattern
contains(s, p) ==
    \E i \in 1..(Len(s) - Len(p) + 1) : SubSeq(s, i, i + Len(p) - 1) = p

\* str::contains with a character pattern
contains_char(s, c) == \E i \in 1..Len(s) : s[i] = c

\* str::split(c).collect(): the segments between the occurrences of c;
\* a string with n occurrences yields n + 1 segments, empty ones included.
RECURSIVE split(_, _)
split(s, c) ==
    IF ~contains_char(s, c)
    THEN << s >>
    ELSE LET i == CHOOSE k \in 1..Len(s) :
                     /\ s[k] = c
                     /\ \A j \in 1..(k - 1) : s[j] # c
         IN << SubSeq(s, 1, i - 1) >> \o split(SubSeq(s, i + 1, Len(s)), c)

HexLower ==
    {"0", "1", "2", "3", "4", "5", "6", "7", "8", "9", "a", "b", "c", "d", "e", "f"}

Digits == <<"0", "1", "2", "3", "4", "5", "6", "7", "8", "9">>

DockerPrefix == <<"d", "o", "c", "k", "e", "r", ":", "/", "/">>

AtMain == <<"@", "m", "a", "i", "n">>

AtMaster == <<"@", "m", "a", "s", "t", "e", "r">>

AtLatest == <<"@", "l", "a", "t", "e", "s", "t">>

\* ------------------------------------------------------------- ActionRef

\* Regex::new(r"^[0-9a-f]{40}$").is_match(v)
commit_sha_regex_is_match(v) ==
    /\ Len(v) = ShaLen
    /\ \A i \in 1..Len(v) : v[i] \in HexLower

\* A slip of from_action_string: `parts.len() < 2` for `parts.len() != 2`,
\* which lets a reference with a second "@" through.
from_action_string_extra_at(action) ==
    IF starts_with(action, DockerPrefix)
    THEN None
    ELSE LET parts == split(action, "@") IN
         IF Len(parts) < 2
         THEN None
         ELSE LET repo_parts == split(parts[1], "/") IN
              IF Len(repo_parts) # 2
              THEN None
              ELSE Some([owner |-> repo_parts[1],
                         repo |-> repo_parts[2],
                         version |-> parts[2],
                         is_commit_sha |-> commit_sha_regex_is_match(parts[2])])

\* ActionRef::from_action_string: Some(ActionRef) or None.
from_action_string(action) ==
    IF starts_with(action, DockerPrefix)
    THEN None
    ELSE LET parts == split(action, "@") IN
         IF Len(parts) # 2
         THEN None
         ELSE LET repo_parts == split(parts[1], "/") IN
              IF Len(repo_parts) # 2
              THEN None
              ELSE Some([owner |-> repo_parts[1],
                         repo |-> repo_parts[2],
                         version |-> parts[2],
                         is_commit_sha |-> commit_sha_regex_is_match(parts[2])])

\* ActionRef::full_name and the label of the lookup URL: "{owner}/{repo}".
full_name(action_ref) == action_ref.owner \o <<"/">> \o action_ref.repo

\* ---------------------------------------------------------------- policy

\* Vec::contains
vec_contains(v, x) == \E i \in 1..Len(v) : v[i] = x

\* is_trusted_owner: map_or(false, |owners| owners.contains(owner))
is_trusted_owner(owner, config) ==
    /\ IsSome(config.trusted_owners)
    /\ owner \in Unwrap(config.trusted_owners)

\* let is_critical = config.critical_dependencies...map_or(false, contains)
is_critical(action, config) ==
    /\ IsSome(config.critical_dependencies)
    /\ vec_contains(Unwrap(config.critical_dependencies), action)

\* action.contains("@main") || contains("@master") || contains("@latest")
unstable_reference(action) ==
    \/ contains(action, AtMain)
    \/ contains(action, AtMaster)
    \/ contains(action, AtLatest)

\* A slip of check_dependency_pinning: the docker:// early return left out.
check_dependency_pinning_no_docker_skip(action, config, strict_flag) ==
    IF is_critical(action, config) \/ strict_flag
    THEN contains_char(action, "@") /\ ~unstable_reference(action)
    ELSE TRUE

\* check_dependency_pinning: TRUE unless the reference fails the pinning rule.
check_dependency_pinning(action, config, strict_flag) ==
    IF starts_with(action, DockerPrefix)
    THEN TRUE
    ELSE IF is_critical(action, config)
         THEN IF ~contains_char(action, "@")
              THEN FALSE
              ELSE IF unstable_reference(action) THEN FALSE ELSE TRUE
         ELSE IF strict_flag
              THEN IF ~contains_char(action, "@")
                   THEN FALSE
                   ELSE IF unstable_reference(action) THEN FALSE ELSE TRUE
              ELSE TRUE

\* The warning of check_dependency_pinning: a critical dependency that
\* passes and is pinned to a tag, not a commit SHA.
pinning_warns(action, config) ==
    /\ ~starts_with(action, DockerPrefix)
    /\ is_critical(action, config)
    /\ contains_char(action, "@")
    /\ ~unstable_reference(action)
    /\ IsSome(from_action_string(action))
    /\ ~Unwrap(from_action_string(action)).is_commit_sha

\* ----------------------------------------------------------- Retry-After

DigitValue(c) == CHOOSE d \in 0..9 : Digits[d + 1] = c

IsDigit(c) == \E d \in 1..10 : Digits[d] = c

RECURSIVE DecimalValue(_)
DecimalValue(ds) ==
    IF Len(ds) = 0
    THEN 0
    ELSE 10 * DecimalValue(SubSeq(ds, 1, Len(ds) - 1)) + DigitValue(ds[Len(ds)])

U64MaxDigits ==
    <<"1", "8", "4", "4", "6", "7", "4", "4", "0", "7",
      "3", "7", "0", "9", "5", "5", "1", "6", "1", "5">>

\* ds <= 18446744073709551615, for a digit string of U64Digits digits.
RECURSIVE DigitsLeq(_, _)
DigitsLeq(ds, ms) ==
    IF Len(ds) = 0
    THEN TRUE
    ELSE IF DigitValue(ds[1]) < DigitValue(ms[1])
         THEN TRUE
         ELSE IF DigitValue(ds[1]) > DigitValue(ms[1])
              THEN FALSE
              ELSE DigitsLeq(Tail(ds), Tail(ms))

\* str::parse::<u64>: an optional "+", then one or more digits, the value
\* within 64 bits; Some(value) or None.
parse_u64(val) ==
    LET ds == IF Len(val) > 0 /\ val[1] = "+" THEN Tail(val) ELSE val IN
    IF Len(ds) = 0 \/ \E i \in 1..Len(ds) : ~IsDigit(ds[i])
    THEN None
    ELSE IF Len(ds) > U64Digits \/ (Len(ds) = U64Digits /\ ~DigitsLeq(ds, U64MaxDigits))
         THEN None
         ELSE Some(DecimalValue(ds))

\* A slip of retry_after: unwrap_or_default() for unwrap_or(60).
retry_after_default_zero(header) ==
    IF ~IsSome(header)
    THEN 0
    ELSE LET parsed == parse_u64(Unwrap(header)) IN
         IF IsSome(parsed) THEN Unwrap(parsed) ELSE 0

\* headers().get("Retry-After")...parse::<u64>().ok().unwrap_or(60)
retry_after(header) ==
    IF ~IsSome(header)
    THEN DefaultRetryAfter
    ELSE LET parsed == parse_u64(Unwrap(header)) IN
         IF IsSome(parsed) THEN Unwrap(parsed) ELSE DefaultRetryAfter

\* ------------------------------------------------------------ environment

Sha40 == [i \in 1..ShaLen |-> IF i % 2 = 0 THEN "a" ELSE "1"]

\* The raw references a scanned workflow draws its uses: values from.
ScanRefs ==
    { <<"a", "/", "a", "@", "v", "4">>,
      <<"a", "/", "a">> \o AtMain,
      <<"b", "/", "a", "@">> \o Sha40,
      <<"a", "/", "a">>,
      <<"a", "/", "a", "@", "v", "4">> \o AtMain,
      DockerPrefix \o <<"a", "/", "a">> \o AtMain }

\* Every sequence over S of length at most n.
SeqsUpTo(S, n) == UNION { [1..k -> S] : k \in 0..n }

\* The references a policy file lists as critical: a tag-pinned one, an
\* unpinned one and a container image.
CriticalList ==
    << <<"a", "/", "a", "@", "v", "4">>,
       <<"a", "/", "a">>,
       DockerPrefix \o <<"a", "/", "a">> \o AtMain >>

\* struct Config, both fields Option: a file with neither key, and a file
\* with critical dependencies and the trusted owner "a".
ConfigContents ==
    { [critical_dependencies |-> None, trusted_owners |-> None],
      [critical_dependencies |-> Some(CriticalList), trusted_owners |-> Some({<<"a">>})] }

\* critical_dependencies.yaml as the file system and the YAML decoder see it.
ConfigFiles ==
    { [read |-> "not_found", yaml |-> "ok", content |-> c] :
        c \in {[critical_dependencies |-> None, trusted_owners |-> None]} }
    \cup { [read |-> "io_error", yaml |-> "ok", content |-> c] :
        c \in {[critical_dependencies |-> None, trusted_owners |-> None]} }
    \cup { [read |-> "ok", yaml |-> "invalid", content |-> c] :
        c \in {[critical_dependencies |-> None, trusted_owners |-> None]} }
    \cup { [read |-> "ok", yaml |-> "ok", content |-> c] : c \in ConfigContents }

\* The workflow document: the uses: values of its steps, in document order.
WorkflowFiles ==
    { [read |-> "ok", yaml |-> "ok", uses |-> u] : u \in SeqsUpTo(ScanRefs, MaxSteps) }
    \cup { [read |-> "io_error", yaml |-> "ok", uses |-> << >>],
           [read |-> "ok", yaml |-> "invalid", uses |-> << >>] }

StatusOK == 200

StatusTooManyRequests == 429

StatusServerError == 500

\* Retry-After header values of a rate-limit response.
Headers == { None, Some(<<"2">>), Some(<<"x">>) }

Advisory == [id |-> "GHSA", title |-> "advisory"]

NoResponse == [sent |-> FALSE, status |-> 0, header |-> None, body |-> None]

RateLimitResponses ==
    { [sent |-> TRUE, status |-> StatusTooManyRequests, header |-> h, body |-> None] :
        h \in Headers }

\* What one GET can come back with: no response at all (transport failure),
\* 200 with a decodable body (no advisory, one advisory) or an undecodable
\* one, 429 with or without Retry-After, or another status.
Responses ==
    { NoResponse }
    \cup { [sent |-> TRUE, status |-> StatusOK, header |-> None, body |-> b] :
             b \in {None, Some(<< >>), Some(<< Advisory >>)} }
    \cup RateLimitResponses
    \cup { [sent |-> TRUE, status |-> StatusServerError, header |-> None, body |-> None] }

NoResult == [kind |-> "none", items |-> << >>]

Ok(items) == [kind |-> "ok", items |-> items]

Err(kind) == [kind |-> kind, items |-> << >>]

IsErr(r) == r.kind \in {"err_transport", "err_json", "err_status"}

\* What the lookup of a reference came back with: "advisories" (a non-empty
\* list), "clean" (an empty list) or "error".
ResultClass(r) ==
    IF IsErr(r) THEN "error" ELSE IF Len(r.items) > 0 THEN "advisories" ELSE "clean"

\* -------------------------------------------------------------------- state

VARIABLES
    strict,              \* opt.strict
    configFile,          \* critical_dependencies.yaml on disk
    workflowFile,        \* the workflow document on disk
    endpoint,            \* "normal", or "persistent": every response is 429
    pc,                  \* main's position
    config,              \* let config
    actions,             \* let actions: HashSet<String>
    remaining,           \* the part of actions the for loop has yet to visit
    cur,                 \* the loop variable action, as an Option
    action_ref,          \* Some(action_ref) of the if let, else None
    vulnerable_actions,  \* Vec<String>
    insecure_pinning,    \* Vec<String>
    response,            \* get_github_advisories: let response
    result,              \* the value get_github_advisories returned
    exit_code,           \* the process exit status, -1 while running
    lookupReqs,          \* requests sent by the current lookup
    rateLimited,         \* 429 responses received by the current lookup
    lastSleep,           \* seconds slept since the latest request
    lastRequest,         \* owner/repo label of the latest request's URL
    delays,              \* inter-reference sleeps taken
    processed,           \* per reference: loop iterations begun
    outcome,             \* per reference: how its iteration ended
    trustChecked,        \* references given the owner trust check
    requested            \* references a lookup request was sent for

vars ==
    << strict, configFile, workflowFile, endpoint, pc, config, actions, remaining,
       cur, action_ref, vulnerable_actions, insecure_pinning, response, result,
       exit_code, lookupReqs, rateLimited, lastSleep, lastRequest, delays,
       processed, outcome, trustChecked, requested >>

envVars == << strict, configFile, workflowFile, endpoint >>

lookupVars == << response, result, lookupReqs, rateLimited, lastSleep, lastRequest >>

reportVars == << vulnerable_actions, insecure_pinning >>

historyVars == << processed, outcome, trustChecked, requested, delays >>

DefaultConfig == [critical_dependencies |-> Some(<< >>), trusted_owners |-> Some({})]

UnsetConfig == [critical_dependencies |-> None, trusted_owners |-> None]

Range(s) == { s[i] : i \in 1..Len(s) }

Init ==
    /\ strict \in BOOLEAN
    /\ configFile \in ConfigFiles
    /\ workflowFile \in WorkflowFiles
    /\ endpoint \in {"normal", "persistent"}
    /\ pc = "start"
    /\ config = UnsetConfig
    /\ actions = {}
    /\ remaining = {}
    /\ cur = None
    /\ action_ref = None
    /\ vulnerable_actions = << >>
    /\ insecure_pinning = << >>
    /\ response = NoResponse
    /\ result = NoResult
    /\ exit_code = -1
    /\ lookupReqs = 0
    /\ rateLimited = 0
    /\ lastSleep = 0
    /\ lastRequest = << >>
    /\ delays = 0
    /\ processed = [r \in ScanRefs |-> 0]
    /\ outcome = [r \in ScanRefs |-> "none"]
    /\ trustChecked = {}
    /\ requested = {}

\* ------------------------------------------------------------------- setup

\* load_config: Ok(config) or Err.
load_config(file) ==
    IF file.read # "ok"
    THEN [ok |-> TRUE, val |-> DefaultConfig]
    ELSE IF file.yaml # "ok"
         THEN [ok |-> FALSE, val |-> UnsetConfig]
         ELSE [ok |-> TRUE, val |-> file.content]

\* extract_actions_from_workflow: Ok(set of uses: values) or Err.
extract_actions_from_workflow(file) ==
    IF file.read # "ok" \/ file.yaml # "ok"
    THEN [ok |-> FALSE, val |-> {}]
    ELSE [ok |-> TRUE, val |-> Range(file.uses)]

\* let config = load_config("critical_dependencies.yaml")?;
LoadConfig ==
    /\ pc = "start"
    /\ LET r == load_config(configFile) IN
       IF r.ok
       THEN /\ config' = r.val
            /\ pc' = "config_loaded"
            /\ exit_code' = exit_code
       ELSE /\ config' = config
            /\ pc' = "aborted_config"
            /\ exit_code' = 1
    /\ UNCHANGED << envVars, actions, remaining, cur, action_ref, reportVars,
                    lookupVars, historyVars >>

\* let client = Client::builder()...build().map_err(..)?;
BuildClient ==
    /\ pc = "config_loaded"
    /\ \E built \in BOOLEAN :
         IF built
         THEN /\ pc' = "client_built"
              /\ exit_code' = exit_code
         ELSE /\ pc' = "aborted_client"
              /\ exit_code' = 1
    /\ UNCHANGED << envVars, config, actions, remaining, cur, action_ref, reportVars,
                    lookupVars, historyVars >>

\* let actions = extract_actions_from_workflow(..)?;
ExtractActions ==
    /\ pc = "client_built"
    /\ LET r == extract_actions_from_workflow(workflowFile) IN
       IF r.ok
       THEN /\ actions' = r.val
            /\ remaining' = r.val
            /\ pc' = "loop"
            /\ exit_code' = exit_code
       ELSE /\ UNCHANGED << actions, remaining >>
            /\ pc' = "aborted_workflow"
            /\ exit_code' = 1
    /\ UNCHANGED << envVars, config, cur, action_ref, reportVars, lookupVars,
                    historyVars >>

\* --------------------------------------------------------------- scan loop

\* from_action_string is pure: its value on each reference a workflow can
\* hold, computed once.
ParsedScanRefs == [r \in ScanRefs |-> from_action_string(r)]

\* for action in &actions { if !check_dependency_pinning(..) { push } ..
\* The HashSet yields its elements in an unspecified order, each once.
CheckPinning ==
    /\ pc = "loop"
    /\ \E action \in remaining :
         /\ cur' = Some(action)
         /\ remaining' = remaining \ {action}
         /\ processed' = [processed EXCEPT ![action] = @ + 1]
         /\ insecure_pinning' =
              IF ~check_dependency_pinning(action, config, strict)
              THEN Append(insecure_pinning, action)
              ELSE insecure_pinning
    /\ pc' = "parse"
    /\ UNCHANGED << envVars, config, actions, action_ref, vulnerable_actions,
                    exit_code, lookupVars, outcome, trustChecked, requested, delays >>

\* if let Some(action_ref) = ActionRef::from_action_string(action) {
\*     the owner trust check } else { "Skipping malformed action reference" }
ParseAndTrust ==
    /\ pc = "parse"
    /\ LET action == Unwrap(cur)
           parsed == ParsedScanRefs[action]
       IN  IF IsSome(parsed)
           THEN /\ action_ref' = parsed
                /\ trustChecked' = trustChecked \cup {action}
                /\ insecure_pinning' =
                     IF /\ ~is_trusted_owner(Unwrap(parsed).owner, config)
                        /\ ~Unwrap(parsed).is_commit_sha
                     THEN Append(insecure_pinning, action)
                     ELSE insecure_pinning
                /\ outcome' = outcome
                /\ pc' = "lookup"
           ELSE /\ action_ref' = None
                /\ trustChecked' = trustChecked
                /\ insecure_pinning' = insecure_pinning
                /\ outcome' = [outcome EXCEPT ![action] = "skipped"]
                /\ pc' = "delay"
    /\ UNCHANGED << envVars, config, actions, remaining, cur, vulnerable_actions,
                    exit_code, lookupVars, processed, requested, delays >>

\* Counters of one lookup stop at MaxRateLimits + 1, which only a
\* persistently rate-limited endpoint reaches.
Bump(n) == IF n <= MaxRateLimits THEN n + 1 ELSE n

\* The responses the endpoint may give to the next request of the lookup.
EndpointResponses ==
    IF endpoint = "persistent"
    THEN RateLimitResponses
    ELSE IF rateLimited < MaxRateLimits
         THEN Responses
         ELSE Responses \ RateLimitResponses

\* What get_github_advisories returns for a response that is not a rate
\* limit: the transport error of send(), the items of a decodable 200 body,
\* the JSON error of an undecodable one, or the unexpected-status error.
lookup_result(resp) ==
    IF ~resp.sent
    THEN Err("err_transport")
    ELSE IF resp.status = StatusOK
         THEN IF IsSome(resp.body) THEN Ok(Unwrap(resp.body)) ELSE Err("err_json")
         ELSE Err("err_status")

\* get_github_advisories: client.get(&url)...send().await and the match on
\* response.status(), up to the return or to the sleep of the 429 arm.
SendRequest ==
    /\ pc = "lookup"
    /\ \E resp \in EndpointResponses :
         /\ response' = resp
         /\ IF resp.sent /\ resp.status = StatusTooManyRequests
            THEN /\ result' = result
                 /\ pc' = "rate_limited"
            ELSE /\ result' = lookup_result(resp)
                 /\ pc' = "result"
    /\ lookupReqs' = Bump(lookupReqs)
    /\ lastRequest' = full_name(Unwrap(action_ref))
    /\ lastSleep' = 0
    /\ requested' = requested \cup {Unwrap(cur)}
    /\ UNCHANGED << envVars, config, actions, remaining, cur, action_ref, reportVars,
                    exit_code, rateLimited, processed, outcome, trustChecked, delays >>

\* A slip of the 429 arm: after the sleep it returns an error instead of
\* calling get_github_advisories again.
RateLimitRetry_gives_up ==
    /\ pc = "rate_limited"
    /\ lastSleep' = retry_after(response.header)
    /\ rateLimited' = Bump(rateLimited)
    /\ result' = Err("err_status")
    /\ pc' = "result"
    /\ UNCHANGED << envVars, config, actions, remaining, cur, action_ref, reportVars,
                    exit_code, response, lookupReqs, lastRequest, historyVars >>

\* StatusCode::TOO_MANY_REQUESTS => sleep(retry_after).await, then the
\* recursive call, which sends the next request.
RateLimitRetry ==
    /\ pc = "rate_limited"
    /\ lastSleep' = retry_after(response.header)
    /\ rateLimited' = Bump(rateLimited)
    /\ pc' = "lookup"
    /\ UNCHANGED << envVars, config, actions, remaining, cur, action_ref, reportVars,
                    exit_code, response, result, lookupReqs, lastRequest, historyVars >>

\* A slip of main's match: the Err arm pushes the reference as vulnerable.
HandleResult_error_is_finding ==
    /\ pc = "result"
    /\ LET action == Unwrap(cur) IN
       /\ vulnerable_actions' =
            IF IsErr(result) \/ Len(result.items) > 0
            THEN Append(vulnerable_actions, action)
            ELSE vulnerable_actions
       /\ outcome' = [outcome EXCEPT ![action] = ResultClass(result)]
    /\ result' = NoResult
    /\ response' = NoResponse
    /\ lookupReqs' = 0
    /\ rateLimited' = 0
    /\ lastSleep' = 0
    /\ lastRequest' = << >>
    /\ pc' = "delay"
    /\ UNCHANGED << envVars, config, actions, remaining, cur, action_ref,
                    insecure_pinning, exit_code, processed, trustChecked,
                    requested, delays >>

\* match get_github_advisories(..).await { Ok(non-empty) => push, Ok(_), Err(e) }
HandleResult ==
    /\ pc = "result"
    /\ LET action == Unwrap(cur) IN
       /\ vulnerable_actions' =
            IF result.kind = "ok" /\ Len(result.items) > 0
            THEN Append(vulnerable_actions, action)
            ELSE vulnerable_actions
       /\ outcome' = [outcome EXCEPT ![action] = ResultClass(result)]
    /\ result' = NoResult
    /\ response' = NoResponse
    /\ lookupReqs' = 0
    /\ rateLimited' = 0
    /\ lastSleep' = 0
    /\ lastRequest' = << >>
    /\ pc' = "delay"
    /\ UNCHANGED << envVars, config, actions, remaining, cur, action_ref,
                    insecure_pinning, exit_code, processed, trustChecked,
                    requested, delays >>

\* sleep(Duration::from_millis(100)).await; the end of the loop body.
Delay ==
    /\ pc = "delay"
    /\ delays' = delays + 1
    /\ cur' = None
    /\ action_ref' = None
    /\ pc' = "loop"
    /\ UNCHANGED << envVars, config, actions, remaining, reportVars, exit_code,
                    lookupVars, processed, outcome, trustChecked, requested >>

\* A slip of the final report: only vulnerable_actions decides the exit.
Report_vulnerable_only ==
    /\ pc = "loop"
    /\ remaining = {}
    /\ exit_code' = IF Len(vulnerable_actions) > 0 THEN 1 ELSE 0
    /\ pc' = "done"
    /\ UNCHANGED << envVars, config, actions, remaining, cur, action_ref, reportVars,
                    lookupVars, historyVars >>

\* The final report: exit(1) if either list is non-empty, else Ok(()).
Report ==
    /\ pc = "loop"
    /\ remaining = {}
    /\ exit_code' =
         IF Len(vulnerable_actions) > 0 \/ Len(insecure_pinning) > 0 THEN 1 ELSE 0
    /\ pc' = "done"
    /\ UNCHANGED << envVars, config, actions, remaining, cur, action_ref, reportVars,
                    lookupVars, historyVars >>

Next ==
    \/ LoadConfig
    \/ BuildClient
    \/ ExtractActions
    \/ CheckPinning
    \/ ParseAndTrust
    \/ SendRequest
    \/ RateLimitRetry
    \/ HandleResult
    \/ Delay
    \/ Report

Spec == Init /\ [][Next]_vars

\* The runs whose policy file is absent, for the claims about the order and
\* the progress of main's steps, which the policy's content does not bear on.
FairInit ==
    /\ Init
    /\ configFile.read = "not_found"

\* main is one task run to completion: whichever step it is at is taken.
FairSpec == FairInit /\ [][Next]_vars /\ WF_vars(Next)

\* ------------------------------------------- the pure functions on their own

Versions ==
    { << >>,
      <<"v", "4">>,
      Tail(AtMain),
      Tail(AtMaster),
      Tail(AtLatest),
      Tail(AtMain) \o <<"l", "i", "n", "e">>,
      Tail(AtLatest) \o <<"-", "1">>,
      Sha40 }

RECURSIVE Flatten(_)
Flatten(ss) == IF Len(ss) = 0 THEN << >> ELSE Head(ss) \o Flatten(Tail(ss))

\* Raw references: an optional docker:// prefix, a name of "a" and "/"
\* characters, and up to MaxAts "@version" parts.
RawUniverse ==
    { prefix \o name \o Flatten(tail) :
        prefix \in {<< >>, DockerPrefix},
        name \in SeqsUpTo({"a", "/"}, MaxNameLen),
        tail \in SeqsUpTo({ <<"@">> \o v : v \in Versions }, MaxAts) }

PureInit ==
    /\ strict \in BOOLEAN
    /\ configFile \in { f \in ConfigFiles : f.read = "not_found" }
    /\ workflowFile \in { f \in WorkflowFiles : f.read = "io_error" }
    /\ endpoint = "normal"
    /\ pc = "pure_ref"
    /\ \E raw \in RawUniverse :
         /\ cur = Some(raw)
         /\ config \in { [critical_dependencies |-> c, trusted_owners |-> t] :
                           c \in {Some(<< >>), Some(<< raw >>)},
                           t \in {Some({}), Some({<<"a">>})} }
    /\ actions = {}
    /\ remaining = {}
    /\ action_ref = None
    /\ vulnerable_actions = << >>
    /\ insecure_pinning = << >>
    /\ response = NoResponse
    /\ result = NoResult
    /\ exit_code = -1
    /\ lookupReqs = 0
    /\ rateLimited = 0
    /\ lastSleep = 0
    /\ lastRequest = << >>
    /\ delays = 0
    /\ processed = [r \in ScanRefs |-> 0]
    /\ outcome = [r \in ScanRefs |-> "none"]
    /\ trustChecked = {}
    /\ requested = {}

\* ActionRef::from_action_string(raw)
ApplyParse ==
    /\ pc = "pure_ref"
    /\ action_ref' = from_action_string(Unwrap(cur))
    /\ pc' = "pure_parsed"
    /\ UNCHANGED << envVars, config, actions, remaining, cur, reportVars, exit_code,
                    lookupVars, historyVars >>

\* if !check_dependency_pinning(raw, &config, strict) { push }
ApplyPinning ==
    /\ pc = "pure_parsed"
    /\ insecure_pinning' =
         IF ~check_dependency_pinning(Unwrap(cur), config, strict)
         THEN Append(insecure_pinning, Unwrap(cur))
         ELSE insecure_pinning
    /\ pc' = "pure_pinned"
    /\ UNCHANGED << envVars, config, actions, remaining, cur, action_ref,
                    vulnerable_actions, exit_code, lookupVars, historyVars >>

\* The owner trust check of a parsed reference.
ApplyTrust ==
    /\ pc = "pure_pinned"
    /\ IsSome(action_ref)
    /\ trustChecked' = trustChecked \cup {Unwrap(cur)}
    /\ insecure_pinning' =
         IF /\ ~is_trusted_owner(Unwrap(action_ref).owner, config)
            /\ ~Unwrap(action_ref).is_commit_sha
         THEN Append(insecure_pinning, Unwrap(cur))
         ELSE insecure_pinning
    /\ pc' = "pure_done"
    /\ UNCHANGED << envVars, config, actions, remaining, cur, action_ref,
                    vulnerable_actions, exit_code, lookupVars, processed, outcome,
                    requested, delays >>

PureNext ==
    \/ ApplyParse
    \/ ApplyPinning
    \/ ApplyTrust

PureSpec == PureInit /\ [][PureNext]_vars

\* ---------------------------------------------- the vocabulary of the claims

Count(s, c) == Cardinality({ i \in 1..Len(s) : s[i] = c })

\* raw begins with the container-image prefix docker://
IsContainerRef(raw) ==
    /\ Len(raw) >= Len(DockerPrefix)
    /\ \A i \in 1..Len(DockerPrefix) : raw[i] = DockerPrefix[i]

FirstAt(raw) == CHOOSE i \in 1..Len(raw) : raw[i] = "@" /\ \A j \in 1..(i - 1) : raw[j] # "@"

\* The parts of a raw reference before and after its first "@".
BeforeAt(raw) == SubSeq(raw, 1, FirstAt(raw) - 1)

AfterAt(raw) == SubSeq(raw, FirstAt(raw) + 1, Len(raw))

\* Exactly one "@" and exactly one "/" before it, and no container prefix.
WellFormed(raw) ==
    /\ ~IsContainerRef(raw)
    /\ Count(raw, "@") = 1
    /\ Count(BeforeAt(raw), "/") = 1

MutableAliases == { Tail(AtMain), Tail(AtMaster), Tail(AtLatest) }

InReport(list, raw) == \E i \in 1..Len(list) : list[i] = raw

Occurrences(list, raw) == Cardinality({ i \in 1..Len(list) : list[i] = raw })

\* ------------------------------------------------------------------ claims

\* C1: at the end of a scan each raw reference appears at most once in
\* insecurelyPinnedActions, also when both the pinning check and the trust
\* check flag it.
C1_InsecureListedOnce ==
    pc = "done" => \A r \in actions : Occurrences(insecure_pinning, r) <= 1

\* C2: for a raw reference with an "@" to which the stability check applies
\* (critical, or strict mode), evaluatePinning fails it if and only if the
\* version after the "@" is exactly main, master or latest.  Stated for the
\* references with exactly one "@" and no container prefix.
C2_UnstableIffExactAlias ==
    (pc = "pure_pinned" /\ ~IsContainerRef(Unwrap(cur)) /\ Count(Unwrap(cur), "@") = 1
        /\ (is_critical(Unwrap(cur), config) \/ strict))
    => (InReport(insecure_pinning, Unwrap(cur)) <=> AfterAt(Unwrap(cur)) \in MutableAliases)

\* C3: a policy configuration that cannot be loaded (absent, unreadable or
\* undecodable) never ends the run: the run goes on with both sets empty.
C3_ConfigFailureNeverPropagated ==
    (configFile.read # "ok" \/ configFile.yaml # "ok")
    => /\ pc # "aborted_config"
       /\ pc # "start" => config = DefaultConfig

\* C8: every reference parse returns comes from a raw string with no
\* container prefix, exactly one "@" and exactly one "/" before it, has a
\* non-empty owner and repo without "/", and owner, repo and version are the
\* segments of raw verbatim; every other raw string is "not applicable".
C8_ParsedRefInvariant ==
    pc = "pure_parsed" =>
        LET raw == Unwrap(cur) IN
        /\ IsSome(action_ref) =>
             LET ref == Unwrap(action_ref) IN
             /\ WellFormed(raw)
             /\ Len(ref.owner) > 0
             /\ Len(ref.repo) > 0
             /\ Count(ref.owner, "/") = 0
             /\ Count(ref.repo, "/") = 0
             /\ ref.owner \o <<"/">> \o ref.repo \o <<"@">> \o ref.version = raw
        /\ ~WellFormed(raw) => action_ref = None

\* The owner of a well-formed raw reference: the text before its "/".
OwnerOf(raw) ==
    LET name == BeforeAt(raw)
        slash == CHOOSE i \in 1..Len(name) : name[i] = "/"
    IN  SubSeq(name, 1, slash - 1)

\* An immutable pin: exactly 40 characters, each a lowercase hexadecimal digit.
ImmutablePin(version) ==
    /\ Len(version) = 40
    /\ \A i \in 1..Len(version) : version[i] \in HexLower

TrustedOwners == IF IsSome(config.trusted_owners) THEN Unwrap(config.trusted_owners) ELSE {}

\* evaluatePinning's verdict: Fail, Warn or Pass.
PinningVerdict(raw) ==
    IF ~check_dependency_pinning(raw, config, strict)
    THEN "Fail"
    ELSE IF pinning_warns(raw, config) THEN "Warn" ELSE "Pass"

\* evaluateTrust's verdict for a reference that parses.
TrustVerdict(raw) ==
    IF ~WellFormed(raw)
    THEN "NotApplicable"
    ELSE IF OwnerOf(raw) \in TrustedOwners
         THEN "Trusted"
         ELSE IF ImmutablePin(AfterAt(raw))
              THEN "UntrustedButImmutable"
              ELSE "UntrustedAndMutable"

Aborted == pc \in {"aborted_config", "aborted_client", "aborted_workflow"}

\* Every reference of the workflow has been through the loop body once.
AllProcessed == \A r \in actions : processed[r] = 1 /\ outcome[r] # "none"

\* The wait a rate-limit response asks for: the Retry-After value when it is
\* a non-negative integer, else 60.
ClaimedWait(header) ==
    IF /\ IsSome(header)
       /\ Len(Unwrap(header)) > 0
       /\ \A i \in 1..Len(Unwrap(header)) : IsDigit(Unwrap(header)[i])
    THEN DecimalValue(Unwrap(header))
    ELSE 60

\* The result a final (non-rate-limit) response determines.
ClaimedResult(resp) ==
    IF ~resp.sent
    THEN Err("err_transport")
    ELSE IF resp.status = 200
         THEN IF IsSome(resp.body) THEN Ok(Unwrap(resp.body)) ELSE Err("err_json")
         ELSE Err("err_status")

\* C4: in a lookup every rate-limit response is followed by a wait of at
\* least Retry-After (60 when absent or not a number) and then by exactly
\* one new request for the same owner/repo: after k rate-limit responses and
\* one other response k + 1 requests have been sent, and the result is the
\* one the last response determines.
C4_RetryAfterRateLimit ==
    /\ (pc = "lookup" /\ rateLimited > 0) =>
          /\ response.status = 429
          /\ lastSleep >= ClaimedWait(response.header)
    /\ (endpoint = "normal" /\ pc = "lookup") => lookupReqs = rateLimited
    /\ (endpoint = "normal" /\ pc \in {"rate_limited", "result"}) =>
          lookupReqs = rateLimited + 1
    /\ pc = "rate_limited" => (response.status = 429 /\ result = NoResult)
    /\ pc = "result" => result = ClaimedResult(response)
    /\ lookupReqs > 0 => lastRequest = BeforeAt(Unwrap(cur))

C4_Witness ==
    /\ pc = "result"
    /\ rateLimited = MaxRateLimits
    /\ lookupReqs = MaxRateLimits + 1
    /\ result.kind = "ok"

\* C6: a raw reference beginning with docker:// parses to "not applicable"
\* and passes the pinning check whatever the policy and the strict flag; no
\* trust check and no lookup request is made for it and it is in neither
\* result list.
C6_ContainerRefsExcluded ==
    \A r \in ScanRefs :
        IsContainerRef(r) =>
            /\ from_action_string(r) = None
            /\ PinningVerdict(r) = "Pass"
            /\ r \notin trustChecked
            /\ r \notin requested
            /\ ~InReport(vulnerable_actions, r)
            /\ ~InReport(insecure_pinning, r)
            /\ outcome[r] \in {"none", "skipped"}

C6_Witness ==
    /\ pc = "done"
    /\ strict
    /\ \E r \in actions :
         /\ IsContainerRef(r)
         /\ is_critical(r, config)
         /\ processed[r] = 1

\* C7: the scan fails (exit status 1) if and only if vulnerableActions or
\* insecurelyPinnedActions is non-empty, that is, if and only if some
\* reference has a pinning Fail, an UntrustedAndMutable trust verdict or a
\* non-empty advisory result; a Warn, an UntrustedButImmutable verdict, a
\* skipped reference or a lookup error alone does not fail it.
C7_FailsIffFinding ==
    pc = "done" =>
        /\ exit_code \in {0, 1}
        /\ exit_code = 1 <=>
             (Len(vulnerable_actions) > 0 \/ Len(insecure_pinning) > 0)
        /\ exit_code = 1 <=>
             \E r \in actions :
                 \/ PinningVerdict(r) = "Fail"
                 \/ TrustVerdict(r) = "UntrustedAndMutable"
                 \/ outcome[r] = "advisories"

C7_Witness ==
    /\ pc = "done"
    /\ exit_code = 0
    /\ \E r \in actions : PinningVerdict(r) = "Warn" /\ outcome[r] = "error"
    /\ \E r \in actions : TrustVerdict(r) = "UntrustedButImmutable"

\* C9: a non-container raw reference that parse rejects is recorded as
\* skipped without an error, gets no trust check and no lookup request, is
\* never in vulnerableActions, and is in insecurelyPinnedActions exactly
\* when evaluatePinning fails it.
C9_MalformedSkipped ==
    \A r \in ScanRefs :
        (~IsContainerRef(r) /\ ~WellFormed(r)) =>
            /\ r \notin trustChecked
            /\ r \notin requested
            /\ ~InReport(vulnerable_actions, r)
            /\ outcome[r] \in {"none", "skipped"}
            /\ (processed[r] = 1 /\ pc # "parse") => outcome[r] = "skipped"
            /\ outcome[r] = "skipped" =>
                 /\ ~Aborted
                 /\ InReport(insecure_pinning, r) <=> PinningVerdict(r) = "Fail"

C9_Witness ==
    /\ pc = "done"
    /\ \E r \in actions :
         /\ Count(r, "@") = 0
         /\ outcome[r] = "skipped"
         /\ InReport(insecure_pinning, r)
    /\ \E r \in actions :
         /\ Count(r, "@") = 2
         /\ outcome[r] = "skipped"

\* C5: a lookup that ends in an error (a non-success, non-rate-limit status,
\* a transport failure or an undecodable body) sends no further request for
\* that reference, does not put it in vulnerableActions, leaves
\* insecurelyPinnedActions as the pinning and trust checks set it, and the
\* scan goes on through every remaining reference to the final report.
C5_ErrorStateOk ==
    /\ \A r \in ScanRefs :
         outcome[r] = "error" =>
             /\ ~InReport(vulnerable_actions, r)
             /\ Occurrences(insecure_pinning, r) =
                  (IF PinningVerdict(r) = "Fail" THEN 1 ELSE 0)
                  + (IF TrustVerdict(r) = "UntrustedAndMutable" THEN 1 ELSE 0)
             /\ ~Aborted
    /\ pc \in {"lookup", "rate_limited", "result"} => outcome[Unwrap(cur)] = "none"

C5_ErrorStep ==
    (pc = "result" /\ IsErr(result)) =>
        /\ pc' = "delay"
        /\ outcome'[Unwrap(cur)] = "error"
        /\ requested' = requested
        /\ lookupReqs' <= lookupReqs
        /\ UNCHANGED << vulnerable_actions, insecure_pinning, remaining, exit_code >>

C5_LookupErrorContained ==
    /\ []C5_ErrorStateOk
    /\ [][C5_ErrorStep]_vars
    /\ (pc = "result" /\ IsErr(result)) ~> (pc = "done" /\ AllProcessed)

C5_Witness ==
    /\ pc = "lookup"
    /\ \E r \in actions : outcome[r] = "error" /\ InReport(insecure_pinning, r)

\* The order of main's steps.
StepOrder ==
    { <<"start", "config_loaded">>, <<"start", "aborted_config">>,
      <<"config_loaded", "client_built">>, <<"config_loaded", "aborted_client">>,
      <<"client_built", "loop">>, <<"client_built", "aborted_workflow">>,
      <<"loop", "parse">>, <<"loop", "done">>,
      <<"parse", "lookup">>, <<"parse", "delay">>,
      <<"lookup", "rate_limited">>, <<"lookup", "result">>,
      <<"rate_limited", "lookup">>,
      <<"result", "delay">>, <<"delay", "loop">> }

\* C10: once the reference set is extracted the references are processed
\* strictly one at a time, each exactly once, no request being sent for a
\* reference before the lookup of the one before it has returned, and the
\* scan reaches the final report provided no lookup is rate-limited for
\* ever; a lookup at a persistently rate-limited endpoint never returns, so
\* the scan never reaches the final report.
C10_OneAtATime ==
    /\ \A r \in ScanRefs :
         /\ processed[r] <= 1
         /\ r \in requested => (outcome[r] # "none" \/ cur = Some(r))
         /\ processed[r] = 1 => (outcome[r] # "none" \/ cur = Some(r))
         /\ outcome[r] # "none" => processed[r] = 1
    /\ pc = "loop" =>
         delays = Cardinality({ r \in ScanRefs : outcome[r] # "none" })
    /\ pc = "done" => AllProcessed /\ delays = Cardinality(actions)
    /\ (endpoint = "persistent" /\ pc = "done") => requested = {}

C10_Step ==
    /\ pc' # pc => << pc, pc' >> \in StepOrder
    /\ (endpoint = "persistent" /\ pc \in {"lookup", "rate_limited"}) =>
          pc' \in {"lookup", "rate_limited"}

C10_ScanRunsToCompletion ==
    /\ []C10_OneAtATime
    /\ [][C10_Step]_vars
    /\ (pc = "loop" /\ endpoint = "normal") ~> pc = "done"

C10_Witness ==
    /\ pc = "done"
    /\ endpoint = "normal"
    /\ Cardinality(requested) = MaxSteps

====
